---------------------------- MODULE Spec2Model ----------------------------
(***************************************************************************)
(* Model of src/lib/daemons.rs: discovery of Emacs daemons in the process  *)
(* table, socket-name extraction from argv[1], socket-path resolution and  *)
(* the list / names / launch / kill-by-name operations.                    *)
(*                                                                         *)
(* Strings are sequences of one-character strings, so that splitting,      *)
(* prefix and substring tests and path handling are computed character by  *)
(* character as the Rust standard library computes them.                   *)
(***************************************************************************)
EXTENDS Integers, Sequences, FiniteSets, TLC

(***************************************************************************)
(* Bounds of the model.                                                    *)
(***************************************************************************)
\* longest argv[1] tail (the part after the flag) drawn in SpecExtract
MaxLen == 4
\* largest process table drawn in Spec
MaxProcs == 3

(***************************************************************************)
(* Option<T>: None is the empty sequence, Some(x) the one-element one, so  *)
(* that Iterator::flatten over options is sequence concatenation.          *)
(***************************************************************************)
None == << >>
Some(x) == << x >>

(***************************************************************************)
(* String literals used by the code.                                       *)
(***************************************************************************)
EQ == "="
LF == "\n"
SEP == "/"
EmacsStr == << "e", "m", "a", "c", "s" >>
DaemonStr == << "d", "a", "e", "m", "o", "n" >>
DaemonFlag == << "-", "-", "d", "a", "e", "m", "o", "n", "=" >>
BgDaemonFlag == << "-", "-", "b", "g", "-", "d", "a", "e", "m", "o", "n", "=" >>
DotDot == << ".", "." >>
Dot == << "." >>

(***************************************************************************)
(* str primitives.                                                         *)
(***************************************************************************)
UpperChars == << "A", "B", "C", "D", "E", "F", "G", "H", "I", "J", "K", "L", "M",
                 "N", "O", "P", "Q", "R", "S", "T", "U", "V", "W", "X", "Y", "Z" >>
LowerChars == << "a", "b", "c", "d", "e", "f", "g", "h", "i", "j", "k", "l", "m",
                 "n", "o", "p", "q", "r", "s", "t", "u", "v", "w", "x", "y", "z" >>

\* char::to_lowercase on the ASCII range
to_lowercase_char(c) ==
    IF \E i \in 1..Len(UpperChars) : UpperChars[i] = c
    THEN LowerChars[CHOOSE i \in 1..Len(UpperChars) : UpperChars[i] = c]
    ELSE c

\* str::to_lowercase
to_lowercase(s) == [i \in 1..Len(s) |-> to_lowercase_char(s[i])]

\* str::starts_with
starts_with(s, pat) ==
    /\ Len(pat) <= Len(s)
    /\ SubSeq(s, 1, Len(pat)) = pat

\* str::contains
contains(s, pat) ==
    \E i \in 1..(Len(s) - Len(pat) + 1) : SubSeq(s, i, i + Len(pat) - 1) = pat

\* positions of the character c in s
Positions(s, c) == { i \in 1..Len(s) : s[i] = c }

Min(S) == CHOOSE x \in S : \A y \in S : x <= y
Max(S) == CHOOSE x \in S : \A y \in S : x >= y

\* str::rsplit_once(c): split at the LAST occurrence (not what the code calls)
rsplit_once(s, c) ==
    IF Positions(s, c) = {} THEN None
    ELSE LET i == Max(Positions(s, c))
         IN  Some(<< SubSeq(s, 1, i - 1), SubSeq(s, i + 1, Len(s)) >>)

\* str::split_once(c): split at the FIRST occurrence; None when c is absent
split_once(s, c) ==
    IF Positions(s, c) = {} THEN None
    ELSE LET i == Min(Positions(s, c))
         IN  Some(<< SubSeq(s, 1, i - 1), SubSeq(s, i + 1, Len(s)) >>)

\* str::split(c), collected: always at least one (possibly empty) piece
RECURSIVE split(_, _)
split(s, c) ==
    IF Positions(s, c) = {} THEN << s >>
    ELSE LET i == Min(Positions(s, c))
         IN  << SubSeq(s, 1, i - 1) >> \o split(SubSeq(s, i + 1, Len(s)), c)

\* Iterator::next on the pieces (the first piece; not what the code calls)
first_piece(pieces) == IF pieces = << >> THEN None ELSE Some(pieces[1])

\* Iterator::last on the pieces
last(pieces) == IF pieces = << >> THEN None ELSE Some(pieces[Len(pieces)])

(***************************************************************************)
(* std::path on a POSIX host.                                              *)
(***************************************************************************)
\* The components a path iterates over from the back: empty pieces and `.`
\* pieces are normalised away (a leading `.` is CurDir, never Normal), `..`
\* is ParentDir, anything else is Normal.
IsSkipped(piece) == piece = << >> \/ piece = Dot

\* the raw text after the last separator (a file_name that does not normalise)
file_name_raw(path) == last(split(path, SEP))

\* Path::file_name: the last component if it is Normal, else None
file_name(path) ==
    LET comps == SelectSeq(split(path, SEP), LAMBDA p : ~IsSkipped(p))
    IN  IF comps = << >> THEN None
        ELSE IF comps[Len(comps)] = DotDot THEN None
        ELSE Some(comps[Len(comps)])

\* PathBuf::join: an absolute component replaces the base; a separator is
\* inserted unless the base is empty or already ends with one
join(base, comp) ==
    IF comp # << >> /\ comp[1] = SEP THEN comp
    ELSE IF base = << >> \/ base[Len(base)] = SEP THEN base \o comp
    ELSE base \o << SEP >> \o comp

\* Display for an unsigned integer: its decimal digits
Digits == << "0", "1", "2", "3", "4", "5", "6", "7", "8", "9" >>
RECURSIVE decimal(_)
decimal(n) ==
    IF n < 10 THEN << Digits[n + 1] >>
    ELSE decimal(n \div 10) \o << Digits[(n % 10) + 1] >>

(***************************************************************************)
(* Result<T, std::io::Error> and a panic.  An error carries its format     *)
(* string and the values formatted into it.                                *)
(***************************************************************************)
Ok(v) == [tag |-> "Ok", val |-> v, fmt |-> "", args |-> << >>]
Err(f, a) == [tag |-> "Err", val |-> << >>, fmt |-> f, args |-> a]
Panic(f, a) == [tag |-> "Panic", val |-> << >>, fmt |-> f, args |-> a]
Pending == [tag |-> "Pending", val |-> << >>, fmt |-> "", args |-> << >>]

(***************************************************************************)
(* DaemonProcess (the struct) and its constructor.  A sysinfo Process is   *)
(* [pid, name, cmd, user_id]: cmd is argv, cmd[1] the program, so the      *)
(* code's cmd().get(1) is cmd[2] here.                                     *)
(***************************************************************************)
DaemonProcess(pid, user_id, socket_name) ==
    [pid |-> pid, user_id |-> user_id, socket_name |-> socket_name]

\* the Option chain of from_sys_process that computes socket_name
socket_name_of(arg) ==
    LET so == split_once(arg, EQ)
    IN  IF so = None THEN None
        ELSE LET seg == last(split(so[1][2], LF))
             IN  IF seg = None THEN None
                 ELSE file_name(seg[1])

from_sys_process(p) ==
    IF Len(p.cmd) < 2 THEN None
    ELSE LET socket_name == socket_name_of(p.cmd[2])
         IN  IF socket_name = None THEN None
             ELSE Some(DaemonProcess(p.pid, p.user_id, socket_name[1]))

(***************************************************************************)
(* get_daemons over one snapshot (processes in the map's iteration order). *)
(***************************************************************************)
\* .map(from_sys_process).flatten().collect()
RECURSIVE map_flatten(_)
map_flatten(ps) ==
    IF ps = << >> THEN << >>
    ELSE from_sys_process(Head(ps)) \o map_flatten(Tail(ps))

name_filter(p) == starts_with(to_lowercase(p.name), EmacsStr)

cmd_filter(p) == IF Len(p.cmd) >= 2 THEN contains(p.cmd[2], DaemonStr) ELSE FALSE

RECURSIVE DedupByName(_)
DedupByName(ds) ==
    IF ds = << >> THEN << >>
    ELSE LET rest == DedupByName(SubSeq(ds, 1, Len(ds) - 1))
             d == ds[Len(ds)]
         IN  IF \E i \in 1..Len(rest) : rest[i].socket_name = d.socket_name
             THEN rest ELSE Append(rest, d)

\* a discovery that keeps one daemon per socket name
get_daemons_dedup(snapshot) ==
    DedupByName(map_flatten(SelectSeq(SelectSeq(snapshot, name_filter), cmd_filter)))

get_daemons(snapshot) ==
    map_flatten(SelectSeq(SelectSeq(snapshot, name_filter), cmd_filter))

(***************************************************************************)
(* DaemonProcess::socket_file.  exists is the set of paths that exist.     *)
(***************************************************************************)
EmacsDirPrefix == EmacsStr

\* a resolver that skips the existence check
socket_file_unchecked(self, config, exists) ==
    IF self.user_id = None
    THEN Err("Unexpected! No user ID present for Emacs daemon process:\n{:?}",
             << decimal(self.pid), self.socket_name >>)
    ELSE Ok(join(join(config.tmp_dir, EmacsDirPrefix \o decimal(self.user_id[1])),
                 self.socket_name))

socket_file(self, config, exists) ==
    IF self.user_id = None
    THEN Err("Unexpected! No user ID present for Emacs daemon process:\n{:?}",
             << decimal(self.pid), self.socket_name >>)
    ELSE LET socket_path ==
                 join(join(config.tmp_dir, EmacsDirPrefix \o decimal(self.user_id[1])),
                      self.socket_name)
         IN  IF socket_path \in exists
             THEN Ok(socket_path)
             ELSE Err("Daemon socket at path {:?} does not exist.", << socket_path >>)

(***************************************************************************)
(* DaemonProcess::show and list_daemons.                                   *)
(***************************************************************************)
NameWidth == 14
PidWidth == 8
SocketWidth == 30

Spaces(n) == [i \in 1..n |-> " "]
\* {:<w}
pad_right(s, w) == IF Len(s) >= w THEN s ELSE s \o Spaces(w - Len(s))
\* {:>w}
pad_left(s, w) == IF Len(s) >= w THEN s ELSE Spaces(w - Len(s)) \o s

PidLabel == << "P", "i", "d", ":", " " >>
SocketLabel == << "S", "o", "c", "k", "e", "t", ":", " " >>
ListHeader == << "C", "u", "r", "r", "e", "n", "t", " ", "E", "m", "a", "c", "s", " ", "d", "a", "e", "m", "o", "n", " ", "i", "n", "s", "t", "a", "n", "c", "e", "s", ":" >>

show(self, config, exists) ==
    LET sf == socket_file(self, config, exists)
    IN  IF sf.tag # "Ok"
        THEN Panic("problem with socket file...", sf.args)
        ELSE Ok(pad_right(self.socket_name, NameWidth)
                \o << " ", "[" >>
                \o PidLabel \o pad_left(decimal(self.pid), PidWidth)
                \o << ",", " " >>
                \o SocketLabel \o pad_right(sf.val, SocketWidth) \o << " " >>
                \o << "]" >>)

\* the for_each of list_daemons: the lines printed so far, the socket_file
\* results show obtained so far, and how the loop ended
RECURSIVE for_each_show(_, _, _, _, _)
for_each_show(daemons, config, exists, printed, sockets) ==
    IF daemons = << >>
    THEN [out |-> printed, sockets |-> sockets, ret |-> Ok(<< >>)]
    ELSE LET line == show(Head(daemons), config, exists)
             socks == Append(sockets, socket_file(Head(daemons), config, exists))
         IN  IF line.tag = "Panic"
             THEN [out |-> printed, sockets |-> socks, ret |-> line]
             ELSE for_each_show(Tail(daemons), config, exists,
                                Append(printed, line.val), socks)

list_daemons(daemons, config, exists) ==
    for_each_show(daemons, config, exists, << ListHeader >>, << >>)

\* active_daemons_names
active_daemons_names(daemons) == [i \in 1..Len(daemons) |-> daemons[i].socket_name]

(***************************************************************************)
(* kill_daemon's find and DaemonProcess::kill.                             *)
(***************************************************************************)
Matching(daemons, name) == { i \in 1..Len(daemons) : daemons[i].socket_name = name }

\* a find that takes the last match
find_last(daemons, name) ==
    IF Matching(daemons, name) = {} THEN None
    ELSE Some(daemons[Max(Matching(daemons, name))])

\* a find whose predicate does not look at the name
find_any(daemons, name) ==
    IF daemons = << >> THEN None ELSE Some(daemons[1])

\* Iterator::find(|p| p.socket_name == name)
find(daemons, name) ==
    IF Matching(daemons, name) = {} THEN None
    ELSE Some(daemons[Min(Matching(daemons, name))])

TERM == "Term"

\* The outcomes of Process::kill_with(Signal::Term): Some(true), Some(false),
\* None (the signal does not exist on the platform: no kill(2) is issued).
KillWithOutcomes == { "SomeTrue", "SomeFalse", "None" }

\* DaemonProcess::kill.  system is the set of pids in the System::new_all()
\* that kill builds; signals are the kill(2) calls issued.
kill_core(self, system, kw) ==
    IF self.pid \notin system
    THEN [signals |-> << >>, snapshots |-> 1,
          ret |-> Err("Error trying to send kill signal to Emacs daemon. No process found with with Pid {}.",
                      << decimal(self.pid) >>)]
    ELSE IF kw = "None"
    THEN [signals |-> << >>, snapshots |-> 1,
          ret |-> Err("Signal::Term does not exist on this system.", << >>)]
    ELSE IF kw = "SomeTrue"
    THEN [signals |-> << [pid |-> self.pid, sig |-> TERM] >>, snapshots |-> 1,
          ret |-> Ok(self.pid)]
    ELSE [signals |-> << [pid |-> self.pid, sig |-> TERM] >>, snapshots |-> 1,
          ret |-> Err("Error trying to send kill signal to Emacs daemon '{}' with Pid {}.",
                      << self.socket_name, decimal(self.pid) >>)]

\* a kill that reports success whenever the signal call was made
kill_ignores_failure(self, system, kw) ==
    LET r == kill_core(self, system, kw)
    IN  IF r.signals # << >> THEN [r EXCEPT !.ret = Ok(self.pid)] ELSE r

\* a kill that signals from the record alone, without looking the pid up
kill_no_lookup(self, system, kw) ==
    LET r == kill_core(self, {self.pid}, kw)
    IN  [r EXCEPT !.snapshots = 0]

kill(self, system, kw) == kill_core(self, system, kw)

(***************************************************************************)
(* launch_daemon: the argv handed to Command::spawn.                       *)
(***************************************************************************)
launch_argv(name, config) ==
    LET daemon_name == IF name = None THEN config.default_socket ELSE name[1]
    IN  << EmacsStr, DaemonFlag \o daemon_name >>

(***************************************************************************)
(* The environment: processes that can be in the process table, socket     *)
(* files that can exist, and the inputs of the commands.                   *)
(***************************************************************************)
Process(pid, name, cmd, user_id) ==
    [pid |-> pid, name |-> name, cmd |-> cmd, user_id |-> user_id]

NameA == << "a" >>
NameB == << "b" >>
NameC == << "c" >>
EmacsVersioned == << "E", "m", "a", "c", "s", "-", "2", "7", ".", "2" >>
EmacsClient == << "e", "m", "a", "c", "s", "c", "l", "i", "e", "n", "t" >>
Vim == << "v", "i", "m" >>
TmpDir == << "/", "t", "m", "p" >>
TmpDirSlash == << "/", "t", "/" >>
DefaultSocket == << "s", "e", "r", "v", "e", "r" >>

Catalogue ==
    { Process(7, EmacsStr, << EmacsStr, DaemonFlag \o NameA >>, Some(7)),
      Process(42, EmacsVersioned,
              << EmacsStr, BgDaemonFlag \o << "\\", "3", ",", "5", LF, "/", "r", "/", "a" >> >>,
              None),
      Process(100, EmacsClient, << EmacsClient, DaemonFlag \o NameB >>, Some(7)),
      Process(3, Vim, << Vim, DaemonFlag \o NameA >>, Some(7)),
      Process(5, EmacsStr, << EmacsStr >>, Some(7)),
      Process(6, EmacsStr, << EmacsStr, << "-", "-", "d", "a", "e", "m", "o", "n" >> >>, Some(7)),
      Process(8, EmacsStr, << EmacsStr, DaemonFlag \o DotDot >>, Some(7)),
      Process(9, EmacsStr, << EmacsStr, << "-", "Q", "=", "a" >> >>, Some(7)) }

ProcessTables == { T \in SUBSET Catalogue : Cardinality(T) <= MaxProcs }

SocketCandidates ==
    { TmpDir \o << SEP >> \o EmacsStr \o << "7" >> \o << SEP >> \o NameA,
      TmpDir \o << SEP >> \o EmacsStr \o << "7" >> \o << SEP >> \o NameB }

KillNames == { NameA, NameB, NameC }
LaunchNames == { None, Some(NameA) }

\* System::new_all().processes(): the live processes in the iteration order
\* of a hash map, which is any order
Snapshots(P) ==
    { s \in [1..Cardinality(P) -> P] : \A i, j \in 1..Cardinality(P) : s[i] = s[j] => i = j }

Pids(P) == { q.pid : q \in P }

(***************************************************************************)
(* State.                                                                  *)
(***************************************************************************)
VARIABLES
    config,     \* Config: tmp_dir and default_socket
    procs,      \* the live processes of the host
    exists,     \* the paths that exist in the filesystem
    pc,         \* position of the invocation: "start", "kill", "done"
    cmd,        \* the command invoked: "none", "list", "names", "launch", "kill"
    arg,        \* the NAME argument of kill / launch (an Option)
    snap,       \* the snapshot get_daemons iterated over
    daemons,    \* the Vec<DaemonProcess> get_daemons returned
    selected,   \* kill_daemon: the Option find returned
    lookup,     \* kill: "NotRun", "Found", "Missing" (system.process(pid))
    kw,         \* kill: the outcome of kill_with, or "NotCalled"
    snapshots,  \* number of System::new_all() calls in this invocation
    spawned,    \* the argvs handed to Command::spawn that started
    signals,    \* the kill(2) calls issued, in order
    stdout,     \* the lines printed
    sockets,    \* list: the socket_file results show obtained, in order
    ret         \* what the command returned (or the panic that ended it)

vars == << config, procs, exists, pc, cmd, arg, snap, daemons, selected, lookup, kw,
           snapshots, spawned, signals, stdout, sockets, ret >>

InitInvocation ==
    /\ pc = "start"
    /\ cmd = "none"
    /\ arg = None
    /\ snap = << >>
    /\ daemons = << >>
    /\ selected = None
    /\ lookup = "NotRun"
    /\ kw = "NotCalled"
    /\ snapshots = 0
    /\ spawned = << >>
    /\ signals = << >>
    /\ stdout = << >>
    /\ sockets = << >>
    /\ ret = Pending

Init ==
    /\ config = [tmp_dir |-> TmpDir, default_socket |-> DefaultSocket]
    /\ procs \in ProcessTables
    /\ exists \in SUBSET SocketCandidates
    /\ InitInvocation

(***************************************************************************)
(* Commands.                                                               *)
(***************************************************************************)
\* list_daemons
ListDaemons ==
    /\ pc = "start"
    /\ \E snapshot \in Snapshots(procs) :
         LET ds == get_daemons(snapshot)
             r == list_daemons(ds, config, exists)
         IN  /\ snap' = snapshot
             /\ daemons' = ds
             /\ stdout' = r.out
             /\ sockets' = r.sockets
             /\ ret' = r.ret
    /\ snapshots' = snapshots + 1
    /\ cmd' = "list"
    /\ pc' = "done"
    /\ UNCHANGED << config, procs, exists, arg, selected, lookup, kw, spawned, signals >>

\* active_daemons_names, printed one per line by the caller
ActiveDaemonsNames ==
    /\ pc = "start"
    /\ \E snapshot \in Snapshots(procs) :
         LET ds == get_daemons(snapshot)
         IN  /\ snap' = snapshot
             /\ daemons' = ds
             /\ stdout' = active_daemons_names(ds)
    /\ snapshots' = snapshots + 1
    /\ ret' = Ok(<< >>)
    /\ cmd' = "names"
    /\ pc' = "done"
    /\ UNCHANGED << config, procs, exists, arg, selected, lookup, kw, spawned, signals,
                    sockets >>

\* launch_daemon: Command::spawn starts the child or fails
LaunchDaemon ==
    /\ pc = "start"
    /\ \E name \in LaunchNames, started \in BOOLEAN :
         /\ arg' = name
         /\ IF started
            THEN /\ spawned' = Append(spawned, launch_argv(name, config))
                 /\ ret' = Ok(<< >>)
            ELSE /\ spawned' = spawned
                 /\ ret' = Err("spawn", << >>)
    /\ cmd' = "launch"
    /\ pc' = "done"
    /\ UNCHANGED << config, procs, exists, snap, daemons, selected, lookup, kw,
                    snapshots, signals, stdout, sockets >>

\* kill_daemon up to the match on find's result
KillDaemonFind ==
    /\ pc = "start"
    /\ \E name \in KillNames, snapshot \in Snapshots(procs) :
         LET ds == get_daemons(snapshot)
             found == find(ds, name)
         IN  /\ arg' = Some(name)
             /\ snap' = snapshot
             /\ daemons' = ds
             /\ selected' = found
             /\ IF found = None
                THEN /\ ret' = Err("No Emacs daemon found with socket name {}", << name >>)
                     /\ pc' = "done"
                ELSE /\ ret' = ret
                     /\ pc' = "kill"
    /\ snapshots' = snapshots + 1
    /\ cmd' = "kill"
    /\ UNCHANGED << config, procs, exists, lookup, kw, spawned, signals, stdout, sockets >>

\* a process of the host exits while kill_daemon is between find and kill
ProcessExit ==
    /\ pc = "kill"
    /\ \E q \in procs : procs' = procs \ {q}
    /\ UNCHANGED << config, exists, pc, cmd, arg, snap, daemons, selected, lookup, kw,
                    snapshots, spawned, signals, stdout, sockets, ret >>

\* kill_daemon from daemon.kill() on: the lookup in a new System, the signal,
\* and the println of the pid
KillDaemonSignal ==
    /\ pc = "kill"
    /\ \E k \in KillWithOutcomes :
         LET self == selected[1]
             r == kill(self, Pids(procs), k)
         IN  /\ lookup' = IF self.pid \in Pids(procs) THEN "Found" ELSE "Missing"
             /\ kw' = IF self.pid \in Pids(procs) THEN k ELSE "NotCalled"
             /\ signals' = signals \o r.signals
             /\ snapshots' = snapshots + r.snapshots
             /\ IF r.ret.tag = "Ok"
                THEN /\ stdout' = Append(stdout, decimal(r.ret.val))
                     /\ ret' = Ok(<< >>)
                ELSE /\ stdout' = stdout
                     /\ ret' = Err(r.ret.fmt, r.ret.args)
    /\ pc' = "done"
    /\ UNCHANGED << config, procs, exists, cmd, arg, snap, daemons, selected, spawned,
                    sockets >>

Next ==
    \/ ListDaemons
    \/ ActiveDaemonsNames
    \/ LaunchDaemon
    \/ KillDaemonFind
    \/ ProcessExit
    \/ KillDaemonSignal

Spec == Init /\ [][Next]_vars

(***************************************************************************)
(* Extraction on its own: a process table of one process whose argv[1] is  *)
(* a flag followed by every tail up to MaxLen over the characters the      *)
(* extraction looks at, discovered by the names command.                   *)
(***************************************************************************)
TailChars == { EQ, LF, SEP, ".", "a" }
Tails == UNION { [1..n -> TailChars] : n \in 0..MaxLen }
Flags == { DaemonFlag, BgDaemonFlag,
           << "-", "-", "d", "a", "e", "m", "o", "n" >>,
           << "-", "Q" >> }
ExtractNames == { EmacsStr, EmacsVersioned, Vim }

InitExtract ==
    /\ config = [tmp_dir |-> TmpDir, default_socket |-> DefaultSocket]
    /\ \E name \in ExtractNames, flag \in Flags, tail \in Tails :
         procs = { Process(42, name, << EmacsStr, flag \o tail >>, Some(7)) }
    /\ exists = {}
    /\ InitInvocation

NextExtract == ActiveDaemonsNames

SpecExtract == InitExtract /\ [][NextExtract]_vars

(***************************************************************************)
(* Resolution on its own: one daemon, every combination of tmp_dir, uid,   *)
(* socket name and existing paths, resolved by the list command.           *)
(***************************************************************************)
ResolveUids == { None, Some(0), Some(7), Some(10), Some(1000) }
ResolveNames == { NameA, NameB }
ResolveTmpDirs == { TmpDir, TmpDirSlash }
ResolveCandidates ==
    { 
      << "/", "t", "m", "p", "/", "e", "m", "a", "c", "s", "7", "/", "a" >>, 
      << "/", "t", "m", "p", "/", "e", "m", "a", "c", "s", "1", "0", "/", "a" >>, 
      << "/", "t", "m", "p", "/", "e", "m", "a", "c", "s", "1", "0", "0", "0", "/", "b" >>, 
      << "/", "t", "/", "e", "m", "a", "c", "s", "0", "/", "a" >>, 
      << "/", "t", "m", "p", "/", "e", "m", "a", "c", "s", "/", "a" >>, 
      << "/", "t", "/", "e", "m", "a", "c", "s", "7", "/", "b" >> }

InitResolve ==
    /\ \E t \in ResolveTmpDirs : config = [tmp_dir |-> t, default_socket |-> DefaultSocket]
    /\ \E uid \in ResolveUids, name \in ResolveNames :
         procs = { Process(42, EmacsStr, << EmacsStr, DaemonFlag \o name >>, uid) }
    /\ exists \in SUBSET ResolveCandidates
    /\ InitInvocation

NextResolve == ListDaemons

SpecResolve == InitResolve /\ [][NextResolve]_vars

(***************************************************************************)
(* Properties.                                                             *)
(***************************************************************************)
Chars(str) == { str[i] : i \in 1..Len(str) }
Discovered == pc # "start" /\ cmd \in { "list", "names", "kill" }
KillMatches == { i \in 1..Len(daemons) : daemons[i].socket_name = arg[1] }
\* i is the first record of the discovery result named NAME
IsFirstMatch(i) ==
    /\ i \in 1..Len(daemons)
    /\ daemons[i].socket_name = arg[1]
    /\ \A j \in 1..(i - 1) : daemons[j].socket_name # arg[1]

\* C1, as stated: whenever the discovery result of a finished kill-by-name has
\* a record named NAME, exactly one signal was sent, TERM, to the pid of the
\* first such record (on a platform where TERM exists).
KillAlwaysSignalsFirstMatch ==
    (cmd = "kill" /\ pc = "done" /\ KillMatches # {} /\ kw # "None") =>
        \E i \in 1..Len(daemons) :
            /\ IsFirstMatch(i)
            /\ signals = << [pid |-> daemons[i].pid, sig |-> TERM] >>

\* C1, amended: kill-by-name selects the first record named NAME; every signal
\* it sends is TERM to that record's pid, at most one is sent, and one is sent
\* exactly when the pid is found at kill's lookup and TERM exists on the
\* platform.
KillSignalsOnlyFirstMatch ==
    /\ \A k \in 1..Len(signals) : signals[k].sig = TERM
    /\ Len(signals) <= 1
    /\ (cmd = "kill" /\ KillMatches # {}) =>
           \E i \in 1..Len(daemons) :
               /\ IsFirstMatch(i)
               /\ selected = Some(daemons[i])
               /\ \A k \in 1..Len(signals) : signals[k].pid = daemons[i].pid
               /\ pc = "done" =>
                      (Len(signals) = 1 <=> (lookup = "Found" /\ kw # "None"))

\* C1 witness: a finished kill where two daemons share NAME and one signal went out
KillAmongSameNamed ==
    /\ cmd = "kill" /\ pc = "done"
    /\ Cardinality(KillMatches) >= 2
    /\ Len(signals) = 1

\* C2: a finished list has printed one line per discovered daemon after the
\* header and returned Ok, whether or not every socket path resolved.
ListIsLenient ==
    (cmd = "list" /\ pc = "done") =>
        /\ ret.tag = "Ok"
        /\ Len(stdout) = Len(daemons) + 1

\* C3, as stated: a finished kill-by-name has taken exactly one snapshot of
\* the process table (and spawned at most once, signalled at most once).
KillTakesOneSnapshot ==
    (cmd = "kill" /\ pc = "done") =>
        /\ snapshots = 1
        /\ Len(spawned) <= 1
        /\ Len(signals) <= 1

\* C3, amended: list and names take one snapshot and launch none; kill-by-name
\* takes one for discovery and, when a record was selected, a second one in
\* kill to look the pid up; the signal goes to the record selected from the
\* first snapshot; at most one spawn and at most one signal per invocation.
SnapshotsPerInvocation ==
    /\ Len(spawned) <= 1
    /\ Len(signals) <= 1
    /\ \A k \in 1..Len(signals) : selected # None /\ signals[k].pid = selected[1].pid
    /\ pc = "done" =>
           snapshots = CASE cmd = "launch" -> 0
                         [] cmd \in { "list", "names" } -> 1
                         [] cmd = "kill" /\ selected = None -> 1
                         [] cmd = "kill" /\ selected # None -> 2

\* C3 witness: a finished kill that selected a record and signalled it
KillLookedUpAgain ==
    /\ cmd = "kill" /\ pc = "done"
    /\ selected # None
    /\ Len(signals) = 1
    /\ snapshots = 2

\* the three matching conditions of discovery
NameBeginsWithEmacs(p) ==
    /\ Len(p.name) >= Len(EmacsStr)
    /\ \A k \in 1..Len(EmacsStr) : to_lowercase_char(p.name[k]) = EmacsStr[k]

Qualifies(p) ==
    /\ NameBeginsWithEmacs(p)
    /\ Len(p.cmd) >= 2
    /\ \E k \in 1..Len(p.cmd[2]) :
           /\ k + Len(DaemonStr) - 1 <= Len(p.cmd[2])
           /\ \A m \in 1..Len(DaemonStr) : p.cmd[2][k + m - 1] = DaemonStr[m]
    /\ socket_name_of(p.cmd[2]) # None

\* C4: the discovery result holds exactly one record for every process of the
\* snapshot that meets the three matching conditions, carrying its pid, uid
\* and extracted name, and none for any other process; records with equal
\* names are all kept.
DiscoveryIsExact ==
    Discovered =>
        /\ \A i \in 1..Len(snap) :
               LET p == snap[i]
                   R == { j \in 1..Len(daemons) : daemons[j].pid = p.pid }
               IN  IF Qualifies(p)
                   THEN /\ Cardinality(R) = 1
                        /\ \A j \in R :
                               /\ daemons[j].user_id = p.user_id
                               /\ Some(daemons[j].socket_name) = socket_name_of(p.cmd[2])
                   ELSE R = {}
        /\ \A j \in 1..Len(daemons) : \E i \in 1..Len(snap) : snap[i].pid = daemons[j].pid

\* C4 witness: two records with the same socket name next to a process that
\* does not qualify
DiscoveryKeepsDuplicates ==
    /\ Discovered
    /\ \E i, j \in 1..Len(daemons) :
           /\ i # j
           /\ daemons[i].socket_name = daemons[j].socket_name
           /\ daemons[i].pid # daemons[j].pid
    /\ Len(snap) > Len(daemons)

\* the argv[1] of the single process of SpecExtract, once discovered
TheArg == snap[1].cmd[2]
TheTail(flag) == SubSeq(TheArg, Len(flag) + 1, Len(TheArg))
Extracted(flag) ==
    /\ cmd = "names" /\ pc = "done"
    /\ Len(snap) = 1 /\ Len(snap[1].cmd) >= 2
    /\ NameBeginsWithEmacs(snap[1])
    /\ starts_with(TheArg, flag)
\* a name as C5 takes it: non-empty, without `/` and newline
PlainName(X) == X # << >> /\ SEP \notin Chars(X) /\ LF \notin Chars(X)

\* C5, as stated: argv[1] = `--daemon=X` gives the record socket name X for
\* every non-empty X without `/` and newline, `.` and `..` included.
DaemonFormYieldsAnyName ==
    (Extracted(DaemonFlag) /\ PlainName(TheTail(DaemonFlag))) =>
        /\ Len(daemons) = 1
        /\ daemons[1].socket_name = TheTail(DaemonFlag)

\* C5, amended: argv[1] = `--daemon=X` gives socket name X for every non-empty
\* X without `/` and newline other than `.` and `..` (X may contain `=`);
\* for X = `.` and X = `..` no record is produced.
DaemonFormYieldsFileName ==
    (Extracted(DaemonFlag) /\ PlainName(TheTail(DaemonFlag))) =>
        IF TheTail(DaemonFlag) \in { Dot, DotDot }
        THEN daemons = << >>
        ELSE /\ Len(daemons) = 1
             /\ daemons[1].socket_name = TheTail(DaemonFlag)

\* C5 witness: `--daemon=a=a` discovered under the name `a=a`
DaemonFormWithEquals ==
    /\ Extracted(DaemonFlag)
    /\ TheTail(DaemonFlag) = << "a", EQ, "a" >>
    /\ Len(daemons) = 1
    /\ daemons[1].socket_name = << "a", EQ, "a" >>

\* the tail is prefix + newline + a path ending in `/X`, X being what follows
\* the separator at position j
BgForm(tail, j) ==
    /\ j \in 1..Len(tail)
    /\ tail[j] = SEP
    /\ \E i \in 1..(j - 1) : tail[i] = LF
    /\ PlainName(SubSeq(tail, j + 1, Len(tail)))

\* C6, as stated: argv[1] = `--bg-daemon=` + prefix + newline + path ending
\* in `/X` gives the record socket name X, whatever the prefix and X.
BgFormYieldsAnyName ==
    Extracted(BgDaemonFlag) =>
        \A j \in 1..Len(TheTail(BgDaemonFlag)) :
            BgForm(TheTail(BgDaemonFlag), j) =>
                /\ Len(daemons) = 1
                /\ daemons[1].socket_name =
                       SubSeq(TheTail(BgDaemonFlag), j + 1, Len(TheTail(BgDaemonFlag)))

\* C6, amended: the same for every X other than `.` and `..`, whatever the
\* prefix contains (`=`, newlines, separators).
BgFormYieldsFileName ==
    Extracted(BgDaemonFlag) =>
        \A j \in 1..Len(TheTail(BgDaemonFlag)) :
            (/\ BgForm(TheTail(BgDaemonFlag), j)
             /\ SubSeq(TheTail(BgDaemonFlag), j + 1, Len(TheTail(BgDaemonFlag)))
                    \notin { Dot, DotDot }) =>
                /\ Len(daemons) = 1
                /\ daemons[1].socket_name =
                       SubSeq(TheTail(BgDaemonFlag), j + 1, Len(TheTail(BgDaemonFlag)))

\* C6 witness: `--bg-daemon==<LF>/a`, a prefix holding `=`, discovered as `a`
BgFormWithEqualsPrefix ==
    /\ Extracted(BgDaemonFlag)
    /\ TheTail(BgDaemonFlag) = << EQ, LF, SEP, "a" >>
    /\ Len(daemons) = 1
    /\ daemons[1].socket_name = << "a" >>

\* argv[1] values whose final path component would be empty: no `=`, nothing
\* after the first `=`, or a last segment that is empty or only separators
AfterFirstEq(str) == SubSeq(str, Min(Positions(str, EQ)) + 1, Len(str))
AfterLastLf(str) ==
    IF Positions(str, LF) = {} THEN str
    ELSE SubSeq(str, Max(Positions(str, LF)) + 1, Len(str))
NoFinalComponent(str) ==
    \/ EQ \notin Chars(str)
    \/ AfterFirstEq(str) = << >>
    \/ Chars(AfterLastLf(AfterFirstEq(str))) \subseteq { SEP }

\* C7: every record of a discovery result has a non-empty socket name without
\* `/`; an argv[1] whose final path component would be empty gives no record,
\* and the command still returns Ok.
SocketNamesAreFileNames ==
    Discovered =>
        /\ \A j \in 1..Len(daemons) :
               /\ daemons[j].socket_name # << >>
               /\ SEP \notin Chars(daemons[j].socket_name)
        /\ \A i \in 1..Len(snap) :
               (Len(snap[i].cmd) >= 2 /\ NoFinalComponent(snap[i].cmd[2])) =>
                   \A j \in 1..Len(daemons) : daemons[j].pid # snap[i].pid
        /\ cmd = "names" => ret.tag = "Ok"

\* C7 witness: an argv[1] ending in a separator whose record is named by the
\* component before it
TrailingSeparatorDiscovered ==
    /\ cmd = "names" /\ pc = "done"
    /\ Len(snap) = 1 /\ Len(daemons) = 1
    /\ TheArg[Len(TheArg)] = SEP
    /\ daemons[1].socket_name = << "a" >>

\* the decimal text of the uids drawn in SpecResolve
DecimalText ==
    (0 :> << "0" >>) @@ (7 :> << "7" >>) @@ (10 :> << "1", "0" >>)
        @@ (1000 :> << "1", "0", "0", "0" >>)
\* tmp_dir / ("emacs" + decimal(uid)) / socket_name, spelled out
AsDirectory(dir) == IF dir[Len(dir)] = SEP THEN dir ELSE dir \o << SEP >>
ExpectedSocketPath(d) ==
    AsDirectory(config.tmp_dir) \o EmacsStr \o DecimalText[d.user_id[1]]
        \o << SEP >> \o d.socket_name

\* C8: resolving a record returns Ok(tmp_dir/emacs<uid>/socket_name) exactly
\* when the record has a user_id and that path exists, and an error
\* otherwise; nothing but tmp_dir, uid, socket_name and existence decides it.
SocketFileResolves ==
    (cmd = "list" /\ pc = "done") =>
        /\ Len(sockets) = Len(daemons)
        /\ \A i \in 1..Len(sockets) :
               IF daemons[i].user_id # None /\ ExpectedSocketPath(daemons[i]) \in exists
               THEN /\ sockets[i].tag = "Ok"
                    /\ sockets[i].val = ExpectedSocketPath(daemons[i])
               ELSE sockets[i].tag = "Err"

\* C8 witness: a daemon of uid 1000 resolved to its existing socket under /tmp
SocketResolvedForUid1000 ==
    /\ cmd = "list" /\ pc = "done"
    /\ Len(sockets) = 1
    /\ daemons[1].user_id = Some(1000)
    /\ sockets[1].tag = "Ok"
    /\ sockets[1].val \in exists

\* C9: a kill-by-name whose discovery result has no record named NAME ends
\* at once with the not-found error carrying NAME, has sent no signal and
\* printed nothing.
KillWithoutMatchDoesNothing ==
    (cmd = "kill" /\ KillMatches = {}) =>
        /\ pc = "done"
        /\ selected = None
        /\ ret.tag = "Err"
        /\ ret.fmt = "No Emacs daemon found with socket name {}"
        /\ ret.args = << arg[1] >>
        /\ signals = << >>
        /\ stdout = << >>
        /\ lookup = "NotRun"

\* C9 witness: daemons were discovered, none of them named NAME
KillMissedAmongDaemons ==
    /\ cmd = "kill" /\ pc = "done"
    /\ daemons # << >>
    /\ KillMatches = {}
    /\ ret.tag = "Err"

\* C10: a finished kill-by-name that selected a record printed the pid and
\* returned Ok exactly when TERM was delivered; when the signal was refused,
\* when TERM does not exist on the platform and when the pid was gone at
\* kill's lookup it returned an error and printed nothing, and in the last
\* case it sent no signal.
KillSucceedsIffDelivered ==
    (cmd = "kill" /\ pc = "done" /\ selected # None) =>
        LET delivered == lookup = "Found" /\ kw = "SomeTrue"
        IN  /\ delivered <=> ret.tag = "Ok"
            /\ delivered <=> stdout # << >>
            /\ delivered => stdout = << decimal(selected[1].pid) >>
            /\ ~delivered => ret.tag = "Err"
            /\ lookup = "Missing" => signals = << >>
            /\ delivered => signals = << [pid |-> selected[1].pid, sig |-> TERM] >>

\* C10 witness: the selected daemon exited before kill looked it up
KillFoundPidGone ==
    /\ cmd = "kill" /\ pc = "done"
    /\ selected # None
    /\ lookup = "Missing"
    /\ ret.tag = "Err"

=============================================================================
